---------------------------- MODULE Spec2Model ----------------------------
(***************************************************************************)
(* Model of src/main.py (weather-api): the FastAPI handlers that wrap the  *)
(* OpenWeatherMap endpoints.  One request is served per behaviour: Init is *)
(* the idle server, a Start action receives a request, and every upstream  *)
(* HTTP call (requests.get) is one action that draws the upstream's        *)
(* outcome and runs the handler up to its next upstream call or its        *)
(* return.                                                                 *)
(*                                                                         *)
(* Encodings.  A JSON object (Python dict) is a function with a string     *)
(* domain; a JSON array is a sequence; an optional value (Python None) is  *)
(* the empty sequence and a present value v is <<v>>.  Temperatures of the *)
(* outfit inputs and the UV index are in tenths, precipitation amounts in  *)
(* thousandths of a millimetre and rounded amounts in hundredths, so that  *)
(* round(x, 2) is a real conversion.  A timestamp "YYYY-MM-DD HH:MM:SS" is *)
(* the pair <<date, time>> of its two space-separated parts.               *)
(***************************************************************************)
EXTENDS Integers, Sequences, FiniteSets, TLC

(***************************************************************************)
(* Bounds of the model.                                                    *)
(***************************************************************************)
MaxCities == 3      \* entries of the comma-separated list given to /compare
MaxBuckets == 8     \* length of the long (strided) forecast lists
MaxDated == 4       \* length of the forecast lists with free dates
MaxRich == 3        \* length of the forecast lists with free fields
MaxHourly == 4      \* length of the forecast lists given to /hourly
MaxHours == 13      \* the hours parameter ranges over -MaxHours..MaxHours

(***************************************************************************)
(* Python values.                                                          *)
(***************************************************************************)
EmptyDict == [k \in {} |-> 0]
None == << >>
Some(v) == << v >>

\* dict.get(k, default)
DictGet(d, k, default) == IF k \in DOMAIN d THEN d[k] ELSE default

\* dict.get(k): None when the key is missing
DictGetOpt(d, k) == IF k \in DOMAIN d THEN Some(d[k]) ELSE None

\* (x or 0) for an optional number
OrZero(x) == IF x = None THEN 0 ELSE x[1]

\* round(x, 2): x in thousandths, the result in hundredths (half to even)
Round2(x) ==
    LET q == x \div 10
        m == x % 10
    IN  IF m < 5 THEN q
        ELSE IF m > 5 THEN q + 1
        ELSE IF q % 2 = 0 THEN q ELSE q + 1

Min2(a, b) == IF a <= b THEN a ELSE b
Max2(a, b) == IF a >= b THEN a ELSE b

\* seq[:n] of Python, n of either sign
Slice(seq, n) ==
    LET stop == IF n >= 0 THEN Min2(n, Len(seq)) ELSE Max2(Len(seq) + n, 0)
    IN  SubSeq(seq, 1, stop)

\* math.ceil(h / 3)
CeilDiv3(h) == -((-h) \div 3)

(***************************************************************************)
(* Results of a handler or of a helper: a returned payload, or a raised    *)
(* exception with the HTTP status FastAPI gives it (HTTPException keeps    *)
(* its status, any other exception becomes 500).                           *)
(***************************************************************************)
Ok(body) == [kind |-> "ok", status |-> 200, body |-> body]
Raise(status, detail) == [kind |-> "error", status |-> status, body |-> [detail |-> detail]]
Crash == Raise(500, "Internal Server Error")
NoResult == [kind |-> "none", status |-> 0, body |-> EmptyDict]

(***************************************************************************)
(* The upstream.  requests.get either never returns (no timeout is set),   *)
(* raises a connection error, or returns a response: a status, a body that *)
(* is JSON or not, and for a JSON body its top-level shape and value.      *)
(* good is the environment's own fact that the upstream supplied the data  *)
(* the call asked for.  A non-success response carries the provider's      *)
(* error object or a non-JSON body (a gateway's error page).               *)
(***************************************************************************)
Response(status, shape, obj, arr, good) ==
    [transport |-> "response", status |-> status, isjson |-> TRUE,
     shape |-> shape, obj |-> obj, arr |-> arr, good |-> good]
ErrorObject(status) ==
    Response(status, "dict", [cod |-> status, message |-> "error"], << >>, FALSE)
GatewayPage ==
    [transport |-> "response", status |-> 502, isjson |-> FALSE,
     shape |-> "none", obj |-> EmptyDict, arr |-> << >>, good |-> FALSE]
ConnError ==
    [transport |-> "conn_error", status |-> 0, isjson |-> FALSE,
     shape |-> "none", obj |-> EmptyDict, arr |-> << >>, good |-> FALSE]
Hang ==
    [transport |-> "hang", status |-> 0, isjson |-> FALSE,
     shape |-> "none", obj |-> EmptyDict, arr |-> << >>, good |-> FALSE]
NoResponse ==
    [transport |-> "none", status |-> 0, isjson |-> FALSE,
     shape |-> "none", obj |-> EmptyDict, arr |-> << >>, good |-> FALSE]

Failures == {ErrorObject(404), ErrorObject(401), GatewayPage, ConnError, Hang}

\* the truth value of a JSON body (not data)
Falsy(o) == IF o.shape = "list" THEN o.arr = << >> ELSE o.obj = EmptyDict

(***************************************************************************)
(* Request parameters.                                                     *)
(***************************************************************************)
UnitParams == {"metric", "imperial", "kelvin"}
CityParams == {"paris", "Tokyo"}
Canonical(c) == IF c = "paris" THEN "Paris" ELSE c

\* the pieces between the commas of the cities parameter, and c.strip()
RawNames == {"paris", " Tokyo ", " "}
Strip(c) == IF c = " Tokyo " THEN "Tokyo" ELSE IF c = " " THEN "" ELSE c

validate_units(u) == IF u \in {"metric", "imperial"} THEN u ELSE "metric"

(***************************************************************************)
(* geocode_city                                                            *)
(***************************************************************************)
GeoMatch(c) == [lat |-> 48, lon |-> 2, name |-> Canonical(c), country |-> "FR"]
GeoMatchNoCountry(c) == [lat |-> 48, lon |-> 2, name |-> Canonical(c)]

GeocodeUpstream(h, c) ==
    { Response(200, "list", EmptyDict, << GeoMatch(c) >>, TRUE),
      Response(200, "list", EmptyDict, << >>, FALSE) }
      \cup (IF h = "coords"
            THEN { Response(200, "list", EmptyDict, << GeoMatchNoCountry(c) >>, TRUE) }
            ELSE { })
      \cup Failures

geocode_city(o) ==
    IF o.transport = "conn_error" THEN Crash
    ELSE IF ~o.isjson THEN Crash                      \* r.json() raises
    ELSE IF Falsy(o) THEN Raise(404, "City not found")
    ELSE IF o.shape # "list" THEN Crash               \* data[0] on an object
    ELSE Ok([lat |-> o.arr[1].lat, lon |-> o.arr[1].lon, name |-> o.arr[1].name,
             country |-> DictGet(o.arr[1], "country", "")])

(***************************************************************************)
(* one_call                                                                *)
(***************************************************************************)
one_call(o) ==
    IF o.transport = "conn_error" THEN Crash
    ELSE IF o.status # 200 THEN Ok(EmptyDict)
    ELSE IF ~o.isjson THEN Crash
    ELSE Ok(o.obj)

(***************************************************************************)
(* get_weather                                                             *)
(***************************************************************************)
\* the optional "rain"/"snow" object of a weather body: any subset of the
\* keys "1h" and "3h", or no object at all
PrecipObjects(amounts1, amounts3) ==
    { EmptyDict } \cup { ("1h" :> a) : a \in amounts1 } \cup { ("3h" :> b) : b \in amounts3 }
      \cup { ("1h" :> a) @@ ("3h" :> b) : a \in amounts1, b \in amounts3 }
OptionalKey(key, objects) == { EmptyDict } \cup { (key :> o) : o \in objects }

WeatherBase(c, temp) ==
    [name |-> Canonical(c),
     main |-> [temp |-> temp, feels_like |-> temp - 10, temp_min |-> temp - 20,
               temp_max |-> temp + 20, humidity |-> 60],
     wind |-> [speed |-> 3],
     sys |-> [sunrise |-> 1700000000, sunset |-> 1700040000],
     weather |-> << [description |-> "clear sky", icon |-> "01d"] >>]

\* temperatures (tenths of a degree) around the bands of /outfit, in the
\* unit the request asked the upstream for
BandTemps(u) ==
    IF u = "metric" THEN {-50, 0, 1, 100, 101, 200, 201}
    ELSE {230, 320, 321, 500, 501, 680, 681}

WeatherBodies(h, c, u) ==
    IF h = "outfit"
    THEN { WeatherBase(c, t) @@ rain @@ snow :
             t \in BandTemps(u),
             rain \in OptionalKey("rain", PrecipObjects({0, 1002}, {2000})),
             snow \in OptionalKey("snow", PrecipObjects({500}, {0})) }
    ELSE IF h = "weather"
    THEN { WeatherBase(c, 215) @@ rain :
             rain \in OptionalKey("rain", PrecipObjects({1002}, {2000})) }
    ELSE { WeatherBase(c, 215) }

WeatherUpstream(h, c, u) ==
    { Response(200, "dict", b, << >>, TRUE) : b \in WeatherBodies(h, c, u) } \cup Failures

get_weather(o) ==
    IF o.transport = "conn_error" THEN Crash
    ELSE IF o.status # 200 THEN Raise(404, "City not found")
    ELSE IF ~o.isjson THEN Crash
    ELSE LET data == o.obj IN
         Ok([city |-> data.name,
             temperature |-> data.main.temp,
             feels_like |-> data.main.feels_like,
             temp_min |-> data.main.temp_min,
             temp_max |-> data.main.temp_max,
             humidity |-> data.main.humidity,
             wind_speed |-> data.wind.speed,
             sunrise |-> data.sys.sunrise,
             sunset |-> data.sys.sunset,
             condition |-> data.weather[1].description,
             icon |-> data.weather[1].icon,
             rain_1h |-> DictGetOpt(DictGet(data, "rain", EmptyDict), "1h"),
             rain_3h |-> DictGetOpt(DictGet(data, "rain", EmptyDict), "3h"),
             snow_1h |-> DictGetOpt(DictGet(data, "snow", EmptyDict), "1h"),
             snow_3h |-> DictGetOpt(DictGet(data, "snow", EmptyDict), "3h")])

(***************************************************************************)
(* The forecast endpoint's 3-hour buckets.                                 *)
(***************************************************************************)
ForecastDays == 5
Dates == 1 .. (ForecastDays + 1)

Bucket(date, time, temp, humidity, description, icon) ==
    [dt_txt |-> << date, time >>,
     main |-> [temp |-> temp, feels_like |-> temp - 1, humidity |-> humidity],
     weather |-> << [description |-> description, icon |-> icon] >>]

\* field combinations of a bucket; the rain and snow amounts are optional
Profile(n, date) ==
    CASE n = 1 -> Bucket(date, 0, -2, 40, "clear sky", "01d") @@ ("snow" :> ("3h" :> 2500))
      [] n = 2 -> Bucket(date, 3, 0, 90, "light rain", "10d") @@ ("rain" :> ("3h" :> 1002))
      [] n = 3 -> Bucket(date, 6, 7, 55, "scattered clouds", "03d")
                    @@ ("rain" :> ("3h" :> 1002)) @@ ("snow" :> ("3h" :> 2500))
      [] n = 4 -> Bucket(date, 9, 7, 40, "clear sky", "01n")
      [] OTHER -> Bucket(date, 12, -2, 90, "mist", "50d") @@ ("rain" :> EmptyDict)
ProfileIds == 1 .. 5

\* short lists over two dates with every profile at every position
RichBuckets == { Profile(n, d) : n \in ProfileIds, d \in 1 .. 2 }
RichLists == UNION { [1 .. n -> RichBuckets] : n \in 0 .. MaxRich }

\* every sequence of dates up to MaxDated, the profile cycling with the position
DatedLists ==
    UNION { { [k \in 1 .. n |-> Profile((k % Cardinality(ProfileIds)) + 1, ds[k])] : ds \in [1 .. n -> Dates] } :
            n \in 1 .. MaxDated }

\* long lists that walk the dates from a start in strides, wrapping around:
\* more than ForecastDays dates, and dates that come back after other dates
Stride(start, step, k) == ((start + step * k) % (ForecastDays + 1)) + 1
StridedLists ==
    { [k \in 1 .. n |-> Profile((k % Cardinality(ProfileIds)) + 1, Stride(start, step, k))] :
        start \in Dates, step \in 1 .. ForecastDays, n \in (MaxDated + 1) .. MaxBuckets }

HourlyBuckets == { Profile(n, 1) : n \in 1 .. 3 }
HourlyLists == UNION { [1 .. n -> HourlyBuckets] : n \in 0 .. MaxHourly }

ForecastUpstream(h) ==
    { Response(200, "dict", [cod |-> 200, list |-> l], << >>, TRUE) :
        l \in IF h = "hourly" THEN HourlyLists
              ELSE RichLists \cup DatedLists \cup StridedLists }
      \cup Failures

(***************************************************************************)
(* get_forecast: the fold of the buckets into days.  daily is the Python   *)
(* dict: keys is its insertion order, rec its values.                      *)
(***************************************************************************)
Range(s) == { s[k] : k \in DOMAIN s }

EntryPrecip(entry) ==
    DictGet(DictGet(entry, "rain", EmptyDict), "3h", 0)
      + DictGet(DictGet(entry, "snow", EmptyDict), "3h", 0)

DailySeed(entry) ==
    [min_temp |-> entry.main.temp,
     max_temp |-> entry.main.temp,
     humidity |-> entry.main.humidity,
     condition |-> entry.weather[1].description,
     icon |-> entry.weather[1].icon,
     precip_mm |-> EntryPrecip(entry)]

\* a variant of DailyUpdate: min_temp takes the entry's temperature
DailyUpdateLastTemp(day, entry) ==
    [day EXCEPT !.min_temp = entry.main.temp,
                !.max_temp = Max2(@, entry.main.temp),
                !.precip_mm = @ + EntryPrecip(entry)]

DailyUpdate(day, entry) ==
    [day EXCEPT !.min_temp = Min2(@, entry.main.temp),
                !.max_temp = Max2(@, entry.main.temp),
                !.precip_mm = @ + EntryPrecip(entry)]

DailyStep(daily, entry) ==
    LET date == entry.dt_txt[1] IN
    IF date \notin Range(daily.keys)
    THEN [keys |-> Append(daily.keys, date), rec |-> (date :> DailySeed(entry)) @@ daily.rec]
    ELSE [keys |-> daily.keys,
          rec |-> [daily.rec EXCEPT ![date] = DailyUpdate(@, entry)]]

RECURSIVE DailyFold(_, _)
DailyFold(daily, list) ==
    IF list = << >> THEN daily
    ELSE DailyFold(DailyStep(daily, Head(list)), Tail(list))

\* a variant of DailyKept: one more day is kept
DailyKeptOneMore(keys) == Slice(keys, ForecastDays + 1)

DailyKept(keys) == Slice(keys, ForecastDays)

DailyRow(d, day) ==
    [date |-> d, min_temp |-> day.min_temp, max_temp |-> day.max_temp,
     humidity |-> day.humidity, condition |-> day.condition, icon |-> day.icon,
     precip_mm |-> Round2(day.precip_mm)]

DailyResult(daily) ==
    LET kept == DailyKept(daily.keys)
    IN  [k \in 1 .. Len(kept) |-> DailyRow(kept[k], daily.rec[kept[k]])]

get_forecast(o, name) ==
    IF o.transport = "conn_error" THEN Crash
    ELSE IF o.status # 200 THEN Raise(500, "Forecast unavailable")
    ELSE IF ~o.isjson THEN Crash
    ELSE IF "list" \notin DOMAIN o.obj THEN Crash
    ELSE Ok([city |-> name,
             daily |-> DailyResult(DailyFold([keys |-> << >>, rec |-> EmptyDict], o.obj.list))])

(***************************************************************************)
(* get_hourly                                                              *)
(***************************************************************************)
HourlyPoint(entry) ==
    [time |-> entry.dt_txt,
     temperature |-> entry.main.temp,
     feels_like |-> entry.main.feels_like,
     humidity |-> entry.main.humidity,
     condition |-> entry.weather[1].description,
     icon |-> entry.weather[1].icon]

\* a variant of HourlyNeeded: integer division instead of math.ceil
HourlyNeededFloor(h) == h \div 3

HourlyNeeded(h) == CeilDiv3(h)

HourlyTimeline(list, h) ==
    LET taken == Slice(list, HourlyNeeded(h))
    IN  [k \in 1 .. Len(taken) |-> HourlyPoint(taken[k])]

get_hourly(o, name, h) ==
    IF o.transport = "conn_error" THEN Crash
    ELSE IF ~o.isjson THEN Crash                      \* r.json() raises
    ELSE IF "list" \notin DOMAIN o.obj THEN Crash     \* the status is not checked
    ELSE Ok([city |-> name, timeline |-> HourlyTimeline(o.obj.list, h)])

(***************************************************************************)
(* get_uv                                                                  *)
(***************************************************************************)
\* UV indexes in tenths, on and around the band boundaries
UviValues == {0, 29, 30, 59, 60, 79, 80, 109, 110, 125}
Tenths(x) == 10 * x

UvBodies ==
    { [lat |-> 48, lon |-> 2], [lat |-> 48, lon |-> 2, current |-> [temp |-> 21]] }
      \cup { [lat |-> 48, lon |-> 2, current |-> [temp |-> 21, uvi |-> v]] : v \in UviValues }

AlertObjects ==
    { [event |-> "Storm", description |-> "High winds", sender_name |-> "Meteo"],
      [description |-> "High winds"],
      EmptyDict }
AlertBodies ==
    { [lat |-> 48, lon |-> 2], [lat |-> 48, lon |-> 2, alerts |-> << >>] }
      \cup { [lat |-> 48, lon |-> 2, alerts |-> << a >>] : a \in AlertObjects }
      \cup { [lat |-> 48, lon |-> 2, alerts |-> << a, b >>] : a \in AlertObjects, b \in AlertObjects }

OneCallUpstream(h) ==
    { Response(200, "dict", b, << >>, TRUE) : b \in IF h = "alerts" THEN AlertBodies ELSE UvBodies }
      \cup Failures

\* a variant of UvCategory: each boundary in the lower band
UvCategoryInclusive(uvi) ==
    IF uvi <= Tenths(3) THEN "Low"
    ELSE IF uvi <= Tenths(6) THEN "Moderate"
    ELSE IF uvi <= Tenths(8) THEN "High"
    ELSE IF uvi <= Tenths(11) THEN "Very High"
    ELSE "Extreme"

UvCategory(uvi) ==
    IF uvi < Tenths(3) THEN "Low"
    ELSE IF uvi < Tenths(6) THEN "Moderate"
    ELSE IF uvi < Tenths(8) THEN "High"
    ELSE IF uvi < Tenths(11) THEN "Very High"
    ELSE "Extreme"

UvIndex(data) == DictGet(DictGet(data, "current", EmptyDict), "uvi", 0)

UvReading(name, data) ==
    [city |-> name, uv_index |-> UvIndex(data), uv_category |-> UvCategory(UvIndex(data))]

\* get_uv after its geocoding: the one-call request and the reading
get_uv(o, name) ==
    IF one_call(o).kind # "ok" THEN one_call(o)
    ELSE Ok(UvReading(name, one_call(o).body))

(***************************************************************************)
(* get_alerts                                                              *)
(***************************************************************************)
AlertView(a) ==
    [event |-> DictGet(a, "event", "No title"),
     description |-> DictGet(a, "description", ""),
     sender_name |-> DictGet(a, "sender_name", "")]

get_alerts(o, name) ==
    IF one_call(o).kind # "ok" THEN one_call(o)
    ELSE LET alerts == DictGet(one_call(o).body, "alerts", << >>) IN
         IF alerts = << >> THEN Ok([city |-> name, alerts |-> << >>])
         ELSE Ok([city |-> name, alerts |-> [k \in 1 .. Len(alerts) |-> AlertView(alerts[k])]])

(***************************************************************************)
(* get_aqi                                                                 *)
(***************************************************************************)
AqiValues(h) == IF h = "compare" THEN {2, 6} ELSE 0 .. 6

AirBodies(h) ==
    { [coord |-> [lat |-> 48, lon |-> 2], list |-> << [main |-> [aqi |-> a], dt |-> 1700000000] >>] :
        a \in AqiValues(h) }
      \cup { [coord |-> [lat |-> 48, lon |-> 2], list |-> << >>] }

AirGood(b) == b.list # << >>

AirUpstream(h) ==
    { Response(200, "dict", b, << >>, AirGood(b)) : b \in AirBodies(h) } \cup Failures

AqiCategory(aqi) ==
    CASE aqi = 1 -> "Good"
      [] aqi = 2 -> "Fair"
      [] aqi = 3 -> "Moderate"
      [] aqi = 4 -> "Poor"
      [] aqi = 5 -> "Very Poor"
      [] OTHER -> "Unknown"

\* a variant of get_aqi: an empty list is read as aqi 0
get_aqi_defaulted(o, name) ==
    IF o.transport = "conn_error" THEN Crash
    ELSE IF ~o.isjson THEN Crash
    ELSE IF "list" \notin DOMAIN o.obj THEN Crash
    ELSE IF o.obj.list = << >> THEN Ok([city |-> name, aqi |-> 0, category |-> AqiCategory(0)])
    ELSE Ok([city |-> name, aqi |-> o.obj.list[1].main.aqi,
             category |-> AqiCategory(o.obj.list[1].main.aqi)])

\* get_aqi after its geocoding: the air-pollution request and the reading
get_aqi(o, name) ==
    IF o.transport = "conn_error" THEN Crash
    ELSE IF ~o.isjson THEN Crash                      \* r.json() raises
    ELSE IF "list" \notin DOMAIN o.obj THEN Crash     \* KeyError: the status is not checked
    ELSE IF o.obj.list = << >> THEN Crash             \* IndexError
    ELSE IF "main" \notin DOMAIN o.obj.list[1] THEN Crash
    ELSE IF "aqi" \notin DOMAIN o.obj.list[1].main THEN Crash
    ELSE Ok([city |-> name, aqi |-> o.obj.list[1].main.aqi,
             category |-> AqiCategory(o.obj.list[1].main.aqi)])

(***************************************************************************)
(* outfit                                                                  *)
(***************************************************************************)
\* 9 * temp_c, temp and temp_c in tenths: temp_c = temp or (temp - 32) * 5 / 9
TempC9(temp, u) == IF u = "metric" THEN 9 * temp ELSE (temp - Tenths(32)) * 5

OutfitRain(weather) == OrZero(weather.rain_1h) + OrZero(weather.rain_3h)
OutfitSnow(weather) == OrZero(weather.snow_1h) + OrZero(weather.snow_3h)

TemperatureClothing(tc9) ==
    IF tc9 <= 0 THEN << "Heavy winter coat" >>
    ELSE IF tc9 <= 9 * Tenths(10) THEN << "Coat or thick jacket" >>
    ELSE IF tc9 <= 9 * Tenths(20) THEN << "Light jacket or sweater" >>
    ELSE << "Light clothing" >>

TemperatureAccessories(tc9) ==
    IF tc9 <= 0 THEN << "Gloves, scarf, warm hat" >> ELSE << >>

TemperatureNotes(tc9) ==
    IF tc9 <= 0 THEN << "Very cold weather." >>
    ELSE IF tc9 <= 9 * Tenths(10) THEN << "Cool temperatures." >>
    ELSE IF tc9 <= 9 * Tenths(20) THEN << >>
    ELSE << "Warm temperatures." >>

\* f"UV levels are {category.lower()}."
Lower(category) ==
    CASE category = "High" -> "UV levels are high."
      [] category = "Very High" -> "UV levels are very high."
      [] OTHER -> "UV levels are extreme."

UvNeedsSunscreen(category) == category \in {"High", "Very High", "Extreme"}

\* a variant of OutfitClothing: the snow rule is skipped when it rains
OutfitClothingElif(tc9, rain, snow) ==
    TemperatureClothing(tc9) \o (IF rain <= 0 /\ snow > 0 THEN << "Snow boots" >> ELSE << >>)

OutfitClothing(tc9, rain, snow) ==
    TemperatureClothing(tc9) \o (IF snow > 0 THEN << "Snow boots" >> ELSE << >>)

OutfitAccessories(tc9, rain, snow, category) ==
    TemperatureAccessories(tc9)
      \o (IF rain > 0 THEN << "Umbrella" >> ELSE << >>)
      \o (IF UvNeedsSunscreen(category) THEN << "Sunscreen" >> ELSE << >>)

OutfitNotes(tc9, rain, snow, category) ==
    TemperatureNotes(tc9)
      \o (IF rain > 0 THEN << "Rain expected." >> ELSE << >>)
      \o (IF snow > 0 THEN << "Snowy conditions." >> ELSE << >>)
      \o (IF UvNeedsSunscreen(category) THEN << Lower(category) >> ELSE << >>)

OutfitPrecip(rain, snow) == Round2(rain + snow)

\* outfit after get_weather and get_uv have returned; c is the city as typed
Outfit(c, u, weather, uvr) ==
    LET rain == OutfitRain(weather)
        snow == OutfitSnow(weather)
        tc9 == TempC9(weather.temperature, u)
    IN  [city |-> c,
         temperature |-> weather.temperature,
         condition |-> weather.condition,
         precip_mm |-> OutfitPrecip(rain, snow),
         uv_category |-> uvr.uv_category,
         summary |-> << "In", c, weather.temperature,
                        IF u = "metric" THEN "C" ELSE "F", weather.condition >>,
         clothing |-> OutfitClothing(tc9, rain, snow),
         accessories |-> OutfitAccessories(tc9, rain, snow, uvr.uv_category),
         notes |-> OutfitNotes(tc9, rain, snow, uvr.uv_category)]

(***************************************************************************)
(* compare                                                                 *)
(***************************************************************************)
\* [c.strip() for c in cities.split(",") if c.strip()], cities given as the
\* sequence of the pieces between its commas
RECURSIVE CompareNames(_)
CompareNames(pieces) ==
    IF pieces = << >> THEN << >>
    ELSE IF Strip(Head(pieces)) # ""
         THEN << Strip(Head(pieces)) >> \o CompareNames(Tail(pieces))
         ELSE CompareNames(Tail(pieces))

CompareRow(w, aq) ==
    [city |-> w.city, temperature |-> w.temperature, condition |-> w.condition,
     humidity |-> w.humidity, wind_speed |-> w.wind_speed,
     aqi |-> aq.aqi, aqi_category |-> aq.category]

(***************************************************************************)
(* reverse_geocode                                                         *)
(***************************************************************************)
ReverseMatches ==
    { n @@ s @@ c :
        n \in { EmptyDict, [name |-> ""], [name |-> "Paris"] },
        s \in { EmptyDict, [state |-> "Ile-de-France"] },
        c \in { EmptyDict, [country |-> "FR"] } }

ReverseGood(m) == DictGet(m, "name", "") # "" \/ "state" \in DOMAIN m \/ "country" \in DOMAIN m

ReverseUpstream ==
    { Response(200, "list", EmptyDict, << m >>, ReverseGood(m)) : m \in ReverseMatches }
      \cup { Response(200, "list", EmptyDict, << >>, FALSE) } \cup Failures

\* a or b of Python on optional strings
Truthy(x) == x # None /\ x[1] # ""
FirstTruthy(a, b, c, default) ==
    IF Truthy(a) THEN a[1] ELSE IF Truthy(b) THEN b[1] ELSE IF Truthy(c) THEN c[1] ELSE default

reverse_geocode(o) ==
    IF o.transport = "conn_error" THEN Crash
    ELSE IF ~o.isjson THEN Crash                      \* resp.json() before the status check
    ELSE IF o.status # 200 \/ Falsy(o) THEN Ok([city |-> "Unknown"])
    ELSE IF o.shape # "list" THEN Crash               \* data[0] on an object
    ELSE Ok([city |-> FirstTruthy(DictGetOpt(o.arr[1], "name"), DictGetOpt(o.arr[1], "state"),
                                  DictGetOpt(o.arr[1], "country"), "Unknown")])

(***************************************************************************)
(* The server: one request at a time.                                      *)
(*   handler  the endpoint serving the request, "idle" before it arrives   *)
(*   pc       the upstream call the handler is about to issue, or "done"   *)
(*            (returned), "error" (raised) or "blocked" (requests.get has  *)
(*            not returned)                                                *)
(*   city, units, hours, point, cities   the request's parameters (units   *)
(*            after validate_units); in compare, city is the loop's name    *)
(*   names, i, rows   compare's list of names, loop position and result    *)
(*   r        the response of the last upstream call                       *)
(*   loc, w   what geocode_city and get_weather returned                   *)
(*   calls    the upstream calls issued so far, in order                   *)
(*   result   the handler's response                                       *)
(***************************************************************************)
VARIABLES handler, pc, city, units, hours, point, cities, names, i, rows, r, loc, w,
          calls, result

vars == << handler, pc, city, units, hours, point, cities, names, i, rows, r, loc, w,
           calls, result >>

NoLocation == [lat |-> 0, lon |-> 0, name |-> "", country |-> ""]
HoursParams == (0 - MaxHours) .. MaxHours
PointParams == { << 48, 2 >>, << 0, 0 >> }
CitiesParams == UNION { [1 .. n -> RawNames] : n \in 1 .. MaxCities }

Init ==
    /\ handler = "idle"
    /\ pc = "idle"
    /\ city = ""
    /\ units = "metric"
    /\ hours = 12
    /\ point = << 0, 0 >>
    /\ cities = << >>
    /\ names = << >>
    /\ i = 0
    /\ rows = << >>
    /\ r = NoResponse
    /\ loc = NoLocation
    /\ w = EmptyDict
    /\ calls = << >>
    /\ result = NoResult

\* a request with a city arrives at handler h, whose first upstream call is first
Begin(h, first, c, u, hrs) ==
    /\ handler = "idle"
    /\ handler' = h
    /\ pc' = first
    /\ city' = c
    /\ units' = validate_units(u)
    /\ hours' = hrs
    /\ UNCHANGED << point, cities, names, i, rows, r, loc, w, calls, result >>

StartWeather == \E c \in CityParams, u \in UnitParams : Begin("weather", "weather", c, u, hours)
StartForecast == \E c \in CityParams, u \in UnitParams : Begin("forecast", "geocode", c, u, hours)
StartHourly ==
    \E c \in CityParams, u \in UnitParams, h \in HoursParams : Begin("hourly", "geocode", c, u, h)
StartCoords == \E c \in CityParams : Begin("coords", "geocode", c, units, hours)
StartUv == \E c \in CityParams, u \in UnitParams : Begin("uv", "geocode", c, u, hours)
StartAqi == \E c \in CityParams : Begin("aqi", "geocode", c, units, hours)
StartAlerts == \E c \in CityParams, u \in UnitParams : Begin("alerts", "geocode", c, u, hours)
StartOutfit == \E c \in CityParams, u \in UnitParams : Begin("outfit", "weather", c, u, hours)

StartReverse ==
    /\ handler = "idle"
    /\ handler' = "reverse_geocode"
    /\ pc' = "reverse"
    /\ point' \in PointParams
    /\ UNCHANGED << city, units, hours, cities, names, i, rows, r, loc, w, calls, result >>

\* compare up to its first get_weather; with no name left it returns at once
StartCompare ==
    /\ handler = "idle"
    /\ \E cs \in CitiesParams, u \in UnitParams :
         /\ handler' = "compare"
         /\ cities' = cs
         /\ units' = validate_units(u)
         /\ names' = CompareNames(cs)
         /\ IF CompareNames(cs) = << >>
            THEN /\ pc' = "done"
                 /\ result' = Ok([cities |-> << >>])
                 /\ UNCHANGED << city, i >>
            ELSE /\ pc' = "weather"
                 /\ i' = 1
                 /\ city' = CompareNames(cs)[1]
                 /\ UNCHANGED result
    /\ UNCHANGED << hours, point, rows, r, loc, w, calls >>

(***************************************************************************)
(* Where a handler goes after an upstream call returned res: the next      *)
(* call, "done", "error", or "next" (compare's except: continue, and the   *)
(* end of its loop body).                                                  *)
(***************************************************************************)
\* compare's bare except catches every exception
CompareCatches(res) == TRUE

OnError(h, res) == IF h = "compare" /\ CompareCatches(res) THEN "next" ELSE "error"

AfterWeather(h, res) ==
    IF res.kind = "error" THEN OnError(h, res)
    ELSE IF h = "weather" THEN "done"
    ELSE "geocode"                \* outfit: get_uv; compare: get_aqi

\* a variant of AfterGeocode: a failed geocoding is tried again
AfterGeocodeRetry(h, res) ==
    IF res.kind = "error" THEN "geocode"
    ELSE CASE h \in {"forecast", "hourly"} -> "forecast"
           [] h \in {"uv", "alerts", "outfit"} -> "onecall"
           [] h \in {"aqi", "compare"} -> "air"
           [] OTHER -> "done"

AfterGeocode(h, res) ==
    IF res.kind = "error" THEN OnError(h, res)
    ELSE CASE h \in {"forecast", "hourly"} -> "forecast"
           [] h \in {"uv", "alerts", "outfit"} -> "onecall"
           [] h \in {"aqi", "compare"} -> "air"
           [] OTHER -> "done"     \* coords

AfterAir(h, res) ==
    IF res.kind = "error" THEN OnError(h, res)
    ELSE IF h = "compare" THEN "next"
    ELSE "done"

AfterLast(h, res) == IF res.kind = "error" THEN OnError(h, res) ELSE "done"

\* a variant of CompareRows: a failed name leaves a placeholder row
CompareRowsPlaceholder(res, aq) ==
    IF res.kind = "ok" THEN Append(rows, CompareRow(w, aq))
    ELSE Append(rows, [city |-> city, temperature |-> 0, condition |-> "", humidity |-> 0,
                       wind_speed |-> 0, aqi |-> 0, aqi_category |-> "Unknown"])

\* compare's result list after the loop body of the current name ended with res
CompareRows(res, aq) == IF res.kind = "ok" THEN Append(rows, CompareRow(w, aq)) ELSE rows

\* the log entry of an upstream call
Call(ep, o) == [ep |-> ep, i |-> i, good |-> o.good]

\* the handler moves on to target; payload is its response when it ends here
Goto(target, payload, newRows) ==
    /\ rows' = newRows
    /\ IF target = "next"
       THEN IF i < Len(names)
            THEN /\ pc' = "weather"
                 /\ i' = i + 1
                 /\ city' = names[i + 1]
                 /\ result' = result
            ELSE /\ pc' = "done"
                 /\ result' = Ok([cities |-> newRows])
                 /\ UNCHANGED << i, city >>
       ELSE /\ pc' = target
            /\ result' = IF target \in {"done", "error"} THEN payload ELSE result
            /\ UNCHANGED << i, city >>

Target(o, after) == IF o.transport = "hang" THEN "blocked" ELSE after

(***************************************************************************)
(* The upstream calls.                                                     *)
(***************************************************************************)
\* requests.get of get_weather (lines 62-90), in /weather, /outfit, /compare
WeatherCall ==
    /\ pc = "weather"
    /\ \E o \in WeatherUpstream(handler, city, units) :
         LET res == get_weather(o)
             target == Target(o, AfterWeather(handler, res))
         IN  /\ r' = o
             /\ calls' = Append(calls, Call("weather", o))
             /\ w' = IF target = "geocode" THEN res.body ELSE w
             /\ Goto(target, res, rows)
    /\ UNCHANGED << handler, units, hours, point, cities, names, loc >>

\* requests.get of geocode_city (lines 31-39)
GeocodeCall ==
    /\ pc = "geocode"
    /\ \E o \in GeocodeUpstream(handler, city) :
         LET res == geocode_city(o)
             target == Target(o, AfterGeocode(handler, res))
         IN  /\ r' = o
             /\ calls' = Append(calls, Call("geocode", o))
             /\ loc' = IF target \in {"forecast", "onecall", "air", "done"} THEN res.body ELSE loc
             /\ Goto(target,
                     IF res.kind = "ok"
                     THEN Ok([city |-> res.body.name, country |-> res.body.country,
                              lat |-> res.body.lat, lon |-> res.body.lon])
                     ELSE res,
                     rows)
    /\ UNCHANGED << handler, units, hours, point, cities, names, w >>

\* requests.get of get_forecast (line 105) and of get_hourly (line 167)
ForecastCall ==
    /\ pc = "forecast"
    /\ \E o \in ForecastUpstream(handler) :
         LET res == IF handler = "hourly" THEN get_hourly(o, loc.name, hours)
                    ELSE get_forecast(o, loc.name)
             target == Target(o, AfterLast(handler, res))
         IN  /\ r' = o
             /\ calls' = Append(calls, Call("forecast", o))
             /\ Goto(target, res, rows)
    /\ UNCHANGED << handler, units, hours, point, cities, names, loc, w >>

\* requests.get of one_call (line 52), in /uv, /alerts and /outfit
OneCallCall ==
    /\ pc = "onecall"
    /\ \E o \in OneCallUpstream(handler) :
         LET res == CASE handler = "alerts" -> get_alerts(o, loc.name)
                      [] handler = "outfit" ->
                           IF get_uv(o, loc.name).kind = "ok"
                           THEN Ok(Outfit(city, units, w, get_uv(o, loc.name).body))
                           ELSE get_uv(o, loc.name)
                      [] OTHER -> get_uv(o, loc.name)
             target == Target(o, AfterLast(handler, res))
         IN  /\ r' = o
             /\ calls' = Append(calls, Call("onecall", o))
             /\ Goto(target, res, rows)
    /\ UNCHANGED << handler, units, hours, point, cities, names, loc, w >>

\* requests.get of get_aqi (line 236), in /aqi and /compare
AirCall ==
    /\ pc = "air"
    /\ \E o \in AirUpstream(handler) :
         LET res == get_aqi(o, loc.name)
             target == Target(o, AfterAir(handler, res))
         IN  /\ r' = o
             /\ calls' = Append(calls, Call("air", o))
             /\ Goto(target, res, IF handler = "compare" THEN CompareRows(res, res.body) ELSE rows)
    /\ UNCHANGED << handler, units, hours, point, cities, names, loc, w >>

\* requests.get of reverse_geocode (line 400)
ReverseCall ==
    /\ pc = "reverse"
    /\ \E o \in ReverseUpstream :
         LET res == reverse_geocode(o)
             target == Target(o, AfterLast(handler, res))
         IN  /\ r' = o
             /\ calls' = Append(calls, Call("reverse", o))
             /\ Goto(target, res, rows)
    /\ UNCHANGED << handler, units, hours, point, cities, names, loc, w >>

Next ==
    \/ StartWeather
    \/ StartForecast
    \/ StartHourly
    \/ StartCoords
    \/ StartUv
    \/ StartAqi
    \/ StartAlerts
    \/ StartOutfit
    \/ StartCompare
    \/ StartReverse
    \/ WeatherCall
    \/ GeocodeCall
    \/ ForecastCall
    \/ OneCallCall
    \/ AirCall
    \/ ReverseCall

Spec == Init /\ [][Next]_vars

\* /compare alone; once issued, a call's step is taken as soon as it can be
NextCompare == StartCompare \/ WeatherCall \/ GeocodeCall \/ AirCall
FairCompare == Init /\ [][NextCompare]_vars /\ WF_vars(NextCompare)

(***************************************************************************)
(* Properties.  Their helpers are written from the statements, not from    *)
(* the operators above.                                                    *)
(***************************************************************************)
Indices(seq) == [k \in 1 .. Len(seq) |-> k]
RECURSIVE SeqSum(_)
SeqSum(s) == IF s = << >> THEN 0 ELSE Head(s) + SeqSum(Tail(s))
LastCall == IF calls = << >> THEN "none" ELSE calls[Len(calls)].ep
Answered == r.transport = "response"

\* ---- compare ----------------------------------------------------------
\* the names of the list: its pieces without surrounding blanks, the empty dropped
ListedNames ==
    LET kept == SelectSeq(cities, LAMBDA c : Strip(c) # "")
    IN  [k \in 1 .. Len(kept) |-> Strip(kept[k])]

\* the lookup ep of the k-th name was made and the upstream supplied its data
LookupGood(ep, k) == \E n \in 1 .. Len(calls) : calls[n] = [ep |-> ep, i |-> k, good |-> TRUE]
LookupFailed(ep, k) == \E n \in 1 .. Len(calls) : calls[n] = [ep |-> ep, i |-> k, good |-> FALSE]
Survives(k) == LookupGood("weather", k) /\ LookupGood("geocode", k) /\ LookupGood("air", k)

SurvivingCities ==
    LET kept == SelectSeq(Indices(ListedNames), Survives)
    IN  [k \in 1 .. Len(kept) |-> Canonical(ListedNames[kept[k]])]

ReturnedCities == [k \in 1 .. Len(result.body.cities) |-> result.body.cities[k].city]

\* C1: compare never ends in an error, and when it returns its rows are
\* exactly the cities whose weather, geocoding and AQI lookups all succeeded,
\* one row each, in the order of the list.
CompareDropsFailedCities ==
    handler = "compare" =>
        /\ pc # "error"
        /\ pc = "done" => /\ result.kind = "ok"
                          /\ ReturnedCities = SurvivingCities

\* a list of three names whose second fails and whose first and third survive
CompareDropsFailedCitiesWitness ==
    /\ handler = "compare"
    /\ pc = "done"
    /\ Len(ListedNames) = 3
    /\ Survives(1) /\ ~Survives(2) /\ Survives(3)
    /\ ReturnedCities = << "Paris", "Tokyo" >>

\* C2: compare always eventually returns, whatever its cities' upstream
\* calls do (respond, fail, or never respond).
CompareEventuallyReturns == (handler = "compare") ~> (pc = "done")

\* ---- get_forecast -----------------------------------------------------
ForecastDone == handler = "forecast" /\ pc = "done"
Buckets == r.obj.list
BucketDate(b) == b.dt_txt[1]
BucketsOn(d) == SelectSeq(Buckets, LAMBDA b : BucketDate(b) = d)
TempsOn(d) == { BucketsOn(d)[k].main.temp : k \in 1 .. Len(BucketsOn(d)) }
Amount3h(b, key) == IF key \in DOMAIN b /\ "3h" \in DOMAIN b[key] THEN b[key]["3h"] ELSE 0
PrecipOn(d) ==
    SeqSum([k \in 1 .. Len(BucketsOn(d)) |->
              Amount3h(BucketsOn(d)[k], "rain") + Amount3h(BucketsOn(d)[k], "snow")])
\* p (hundredths) is x (thousandths) rounded to two decimals
RoundedTo2(p, x) == 10 * p - x \in -5 .. 5
Daily == result.body.daily

\* C3: every day of the output has the minimum and the maximum of the
\* temperatures of all buckets of its date, and as precip_mm the sum of
\* their rain and snow amounts (missing = 0) rounded to 2 decimals.
DailyAggregatesAllBuckets ==
    ForecastDone =>
        \A n \in 1 .. Len(Daily) :
            LET d == Daily[n].date IN
            /\ Daily[n].min_temp \in TempsOn(d)
            /\ Daily[n].max_temp \in TempsOn(d)
            /\ \A t \in TempsOn(d) : Daily[n].min_temp <= t /\ t <= Daily[n].max_temp
            /\ RoundedTo2(Daily[n].precip_mm, PrecipOn(d))

\* a day of three buckets, with different temperatures, one without rain,
\* whose precipitation does not round to itself
DailyAggregatesAllBucketsWitness ==
    /\ ForecastDone
    /\ \E n \in 1 .. Len(Daily) :
         /\ Len(BucketsOn(Daily[n].date)) = 3
         /\ Daily[n].min_temp < Daily[n].max_temp
         /\ \E k \in 1 .. 3 : "rain" \notin DOMAIN BucketsOn(Daily[n].date)[k]
         /\ PrecipOn(Daily[n].date) # 10 * Daily[n].precip_mm

\* the positions at which a date occurs for the first time
FirstSeen(k) == \A j \in 1 .. (k - 1) : BucketDate(Buckets[j]) # BucketDate(Buckets[k])
FirstOccurrences ==
    LET firsts == SelectSeq(Indices(Buckets), FirstSeen)
    IN  [k \in 1 .. Len(firsts) |-> firsts[k]]

\* C4: the daily list holds the first min(5, number of distinct dates)
\* distinct dates, each once, in the order of their first occurrence, each
\* with the humidity, condition and icon of the first bucket of its date.
DailyKeepsFirstFiveDates ==
    ForecastDone =>
        /\ Len(Daily) = Min2(5, Len(FirstOccurrences))
        /\ \A n \in 1 .. Len(Daily) :
             LET first == Buckets[FirstOccurrences[n]] IN
             /\ Daily[n].date = BucketDate(first)
             /\ Daily[n].humidity = first.main.humidity
             /\ Daily[n].condition = first.weather[1].description
             /\ Daily[n].icon = first.weather[1].icon

\* six distinct dates, the first of which comes back after the others with
\* another humidity
DailyKeepsFirstFiveDatesWitness ==
    /\ ForecastDone
    /\ Len(FirstOccurrences) = 6
    /\ Len(Daily) = 5
    /\ Len(BucketsOn(Daily[1].date)) = 2
    /\ BucketDate(Buckets[Len(Buckets)]) = Daily[1].date
    /\ Buckets[Len(Buckets)].main.humidity # Daily[1].humidity

\* ---- get_hourly -------------------------------------------------------
HourlyDone == handler = "hourly" /\ pc = "done"
Timeline == result.body.timeline
\* ceil(h / 3): the least integer n with 3 * n >= h
Ceil3(h) == CHOOSE n \in (0 - MaxHours) .. MaxHours : 3 * n >= h /\ 3 * (n - 1) < h

\* the timeline is the first buckets, in order, one point per bucket
TimelineIsPrefix ==
    /\ Len(Timeline) <= Len(Buckets)
    /\ \A k \in 1 .. Len(Timeline) :
         /\ Timeline[k].time = Buckets[k].dt_txt
         /\ Timeline[k].temperature = Buckets[k].main.temp
         /\ Timeline[k].feels_like = Buckets[k].main.feels_like
         /\ Timeline[k].humidity = Buckets[k].main.humidity
         /\ Timeline[k].condition = Buckets[k].weather[1].description
         /\ Timeline[k].icon = Buckets[k].weather[1].icon

\* C5 as stated: for every integer hours h, zero and negative included, the
\* timeline has length min(available buckets, ceil(h/3)) and is the first
\* buckets in order, one point per bucket.
HourlyLengthIsMinOfCeil ==
    HourlyDone =>
        /\ Len(Timeline) = Min2(Len(Buckets), Ceil3(hours))
        /\ TimelineIsPrefix

\* C5 as amended: the timeline is the first buckets in order, one point per
\* bucket; its length is min(available, ceil(h/3)) when ceil(h/3) >= 0, and
\* max(0, available + ceil(h/3)) when ceil(h/3) < 0 (h <= -3).
HourlyLengthBySignOfCeil ==
    HourlyDone =>
        /\ Ceil3(hours) >= 0 => Len(Timeline) = Min2(Len(Buckets), Ceil3(hours))
        /\ Ceil3(hours) < 0 => Len(Timeline) = Max2(0, Len(Buckets) + Ceil3(hours))
        /\ hours <= -3 <=> Ceil3(hours) < 0
        /\ TimelineIsPrefix

\* hours = -3 with three buckets available: two points are returned
HourlyLengthBySignOfCeilWitness ==
    /\ HourlyDone
    /\ hours = -3
    /\ Len(Buckets) = 3
    /\ Len(Timeline) = 2

\* ---- get_uv -----------------------------------------------------------
UpstreamUvi ==
    IF r.status = 200 /\ "current" \in DOMAIN r.obj /\ "uvi" \in DOMAIN r.obj.current
    THEN r.obj.current.uvi
    ELSE 0

\* the band of an index given in tenths
InBand(index, category) ==
    /\ category = "Low" <=> index < 30
    /\ category = "Moderate" <=> (30 <= index /\ index < 60)
    /\ category = "High" <=> (60 <= index /\ index < 80)
    /\ category = "Very High" <=> (80 <= index /\ index < 110)
    /\ category = "Extreme" <=> 110 <= index

\* C6: once geocoding succeeded, every one-call response (non-success,
\* without current, without uvi, or with one) yields a reading whose index
\* is the upstream uvi or 0 and whose category is the band of that index,
\* the boundaries 3, 6, 8, 11 in the upper band.
UvAlwaysReads ==
    (handler = "uv" /\ LastCall = "onecall" /\ Answered) =>
        /\ pc = "done"
        /\ result.kind = "ok"
        /\ result.body.uv_index = UpstreamUvi
        /\ result.body.uv_index >= 0
        /\ InBand(result.body.uv_index, result.body.uv_category)

\* a non-success one-call response read as index 0, Low
UvAlwaysReadsWitness ==
    /\ handler = "uv"
    /\ LastCall = "onecall"
    /\ Answered
    /\ r.status # 200
    /\ result.body.uv_index = 0
    /\ result.body.uv_category = "Low"

\* ---- outfit -----------------------------------------------------------
OutfitDone == handler = "outfit" /\ pc = "done"
Amount(x) == IF x = None THEN 0 ELSE x[1]
RainTotal == Amount(w.rain_1h) + Amount(w.rain_3h)
SnowTotal == Amount(w.snow_1h) + Amount(w.snow_3h)
\* the Celsius band of the temperature (tenths; 32, 50, 68 F = 0, 10, 20 C)
BandItem ==
    LET t == w.temperature
        b0 == IF units = "metric" THEN 0 ELSE 320
        b10 == IF units = "metric" THEN 100 ELSE 500
        b20 == IF units = "metric" THEN 200 ELSE 680
    IN  IF t <= b0 THEN "Heavy winter coat"
        ELSE IF t <= b10 THEN "Coat or thick jacket"
        ELSE IF t <= b20 THEN "Light jacket or sweater"
        ELSE "Light clothing"
Only(cond, item) == IF cond THEN << item >> ELSE << >>

OutfitItemsAsStated ==
    /\ result.body.clothing = << BandItem >> \o Only(SnowTotal > 0, "Snow boots")
    /\ result.body.accessories =
         Only(BandItem = "Heavy winter coat", "Gloves, scarf, warm hat")
           \o Only(RainTotal > 0, "Umbrella")
           \o Only(result.body.uv_category \in {"High", "Very High", "Extreme"}, "Sunscreen")

\* C7 as stated: clothing and accessories are exactly the items of the
\* rules, none short-circuiting another, and precip_mm is rain + snow.
OutfitPrecipIsExactSum ==
    OutfitDone =>
        /\ OutfitItemsAsStated
        /\ 10 * result.body.precip_mm = RainTotal + SnowTotal

\* C7 as amended: the same, with precip_mm = rain + snow rounded to 2 decimals.
OutfitPrecipIsRoundedSum ==
    OutfitDone =>
        /\ OutfitItemsAsStated
        /\ RoundedTo2(result.body.precip_mm, RainTotal + SnowTotal)

\* freezing, raining, snowing and a high UV index at once
OutfitPrecipIsRoundedSumWitness ==
    /\ OutfitDone
    /\ units = "imperial"
    /\ result.body.clothing = << "Heavy winter coat", "Snow boots" >>
    /\ result.body.accessories = << "Gloves, scarf, warm hat", "Umbrella", "Sunscreen" >>
    /\ RainTotal + SnowTotal = 3502
    /\ result.body.precip_mm = 350

\* ---- reverse_geocode --------------------------------------------------
\* C8: whatever the upstream answers, reverse_geocode returns {city: string},
\* never an error, and the city is "Unknown" when the answer is a failure
\* or holds no usable match.
ReverseNeverErrors ==
    (handler = "reverse_geocode" /\ LastCall = "reverse" /\ Answered) =>
        /\ pc = "done"
        /\ result.kind = "ok"
        /\ DOMAIN result.body = {"city"}
        /\ ~r.good => result.body.city = "Unknown"

\* ---- get_aqi ----------------------------------------------------------
AqiTable(a) ==
    IF a = 1 THEN "Good" ELSE IF a = 2 THEN "Fair" ELSE IF a = 3 THEN "Moderate"
    ELSE IF a = 4 THEN "Poor" ELSE IF a = 5 THEN "Very Poor" ELSE "Unknown"
AirListEmpty == "list" \in DOMAIN r.obj /\ r.obj.list = << >>
AirHasAqi ==
    /\ "list" \in DOMAIN r.obj
    /\ r.obj.list # << >>
    /\ "main" \in DOMAIN r.obj.list[1]
    /\ "aqi" \in DOMAIN r.obj.list[1].main

\* C9: after a successful geocoding, a non-success or empty-list
\* air-pollution response ends get_aqi in an error, with no reading; a
\* reading is returned only when list[0].main.aqi exists, with the table's
\* category for 1..5 and "Unknown" for any other integer.
AqiFailsHard ==
    (handler = "aqi" /\ LastCall = "air" /\ Answered) =>
        /\ (r.status # 200 \/ AirListEmpty) => (pc = "error" /\ result.kind = "error")
        /\ pc = "done" =>
             /\ AirHasAqi
             /\ result.body.aqi = r.obj.list[1].main.aqi
             /\ result.body.category = AqiTable(result.body.aqi)

\* a 200 response with an empty list ends in an error
AqiFailsHardWitness ==
    /\ handler = "aqi"
    /\ LastCall = "air"
    /\ r.status = 200
    /\ AirListEmpty
    /\ pc = "error"
    /\ result.status = 500

\* ---- every handler ----------------------------------------------------
\* C10: no upstream request is issued twice in one execution (per name of
\* the list in compare), at most one call is added per step, and compare
\* issues no geocoding or air-pollution call for a name whose weather call
\* failed.
NoRetries ==
    /\ \A m, n \in 1 .. Len(calls) :
         (calls[m].ep = calls[n].ep /\ calls[m].i = calls[n].i) => m = n
    /\ \A n \in 1 .. Len(calls) :
         (handler = "compare" /\ calls[n].ep \in {"geocode", "air"})
            => LookupGood("weather", calls[n].i)
    /\ Len(calls) <= 3 * Max2(1, Len(names))

\* compare returned after a failed weather call, a failed geocoding and a
\* failed air-pollution call, none of them repeated
NoRetriesWitness ==
    /\ handler = "compare"
    /\ pc = "done"
    /\ Len(names) = 3
    /\ LookupFailed("weather", 1)
    /\ LookupFailed("geocode", 2)
    /\ LookupFailed("air", 3)
    /\ Len(calls) = 6

=============================================================================
